---- MODULE Spec2Model ----
(***************************************************************************)
(* Model of Scripts/GeoSklearnRegression.py: the model factory get_model,  *)
(* the report builder regression_summary and the orchestrator              *)
(* feature_class_sklearn_regression.                                       *)
(*                                                                         *)
(* Numerical work (fit, predict, metrics, F-regression) is external; the   *)
(* model keeps its results symbolic and keeps what the script itself       *)
(* decides: which calls are made in which order, what is appended to the   *)
(* report, what is logged, what is written to the dataset and to the two   *)
(* output files, and where an exception ends up.                           *)
(*                                                                         *)
(* Coefficients are integers in units of 10^-4, rounded coefficients are   *)
(* integers in units of 10^-3.                                             *)
(***************************************************************************)
EXTENDS Integers, Sequences, FiniteSets, TLC

VARIABLES
    \* ---- feature_class_sklearn_regression: arguments
    regression_model_type, alpha, normalize, output_dir, independent_vars,
    \* ---- feature_class_sklearn_regression: locals and position
    pc, i, regression_model, regession_report, valid_output_file_directory,
    text_report, exc,
    \* ---- the world the orchestrator acts on
    dataset, reportFile, modelFile, messages, logged, stdout,
    \* ---- history
    initial, failedAt, swallowed, attempts,
    \* ---- regression_summary called on its own
    sumIn, sumOut

vars == <<regression_model_type, alpha, normalize, output_dir, independent_vars,
          pc, i, regression_model, regession_report, valid_output_file_directory,
          text_report, exc, dataset, reportFile, modelFile, messages, logged,
          stdout, initial, failedAt, swallowed, attempts, sumIn, sumOut>>

orchVars == <<regression_model_type, alpha, normalize, output_dir, independent_vars,
              pc, i, regression_model, regession_report, valid_output_file_directory,
              text_report, exc, dataset, reportFile, modelFile, messages, logged,
              stdout, initial, failedAt, swallowed, attempts>>

-----------------------------------------------------------------------------
(* Bounds *)

\* largest number of regressor names / coefficients / matrix columns
MaxVars == 2
\* coefficients range over -MaxCoef..MaxCoef (units of 10^-4)
MaxCoef == 6
\* largest row count of the arrays handed to regression_summary
MaxRows == 2
\* alpha ranges over 1..MaxAlpha
MaxAlpha == 2

RegressorNames == {"x1", "x2"}
Coefs == (-MaxCoef)..MaxCoef

SeqsUpTo(S, n) == UNION {[1..k -> S] : k \in 0..n}

IsPrefix(s, t) == /\ Len(s) <= Len(t)
                  /\ \A k \in 1..Len(s) : s[k] = t[k]

-----------------------------------------------------------------------------
(* Estimators: sklearn.linear_model as far as get_model uses it *)

\* the classes of the module, by the parameters their set_params accepts
linear_model ==
    [LinearRegression |-> {"normalize"},
     Ridge            |-> {"alpha", "normalize"},
     SGDRegressor     |-> {"alpha"},
     RANSACRegressor  |-> {}]

\* Python's None where an estimator is expected
NoneModel == [none |-> TRUE, cls |-> "NoneType", alpha |-> 0, normalize |-> FALSE,
              fitted |-> FALSE, coef_ |-> <<>>]

\* getattr(module_dict, regression_type)(): the class's defaults
\* (alpha 0 stands for "the class's own default", which no caller passes)
Construct(cls) == [none |-> FALSE, cls |-> cls, alpha |-> 0, normalize |-> FALSE,
                   fitted |-> FALSE, coef_ |-> <<>>]

\* set_params(alpha=alpha): ValueError for a parameter the class lacks
set_params_alpha(m, a) ==
    IF "alpha" \in linear_model[m.cls]
    THEN [raised |-> FALSE, value |-> [m EXCEPT !.alpha = a]]
    ELSE [raised |-> TRUE, value |-> m]

\* set_params(normalize=normalize)
set_params_normalize(m, n) ==
    IF "normalize" \in linear_model[m.cls]
    THEN [raised |-> FALSE, value |-> [m EXCEPT !.normalize = n]]
    ELSE [raised |-> TRUE, value |-> m]

\* get_model with both parameters in one try block: a rejected alpha skips
\* the normalize attempt
get_model_OneTry(regression_type, a, n) ==
    IF regression_type \notin DOMAIN linear_model
    THEN [raised |-> TRUE, value |-> NoneModel, printed |-> <<>>]
    ELSE LET m0 == Construct(regression_type)
             r1 == set_params_alpha(m0, a)
             r2 == set_params_normalize(r1.value, n)
         IN  IF r1.raised
             THEN [raised |-> FALSE, value |-> m0,
                   printed |-> <<"Did not set alpha in model...">>]
             ELSE [raised |-> FALSE, value |-> r2.value,
                   printed |-> IF r2.raised
                               THEN <<"Did not set normalize in model...">>
                               ELSE <<>>]

\* get_model with a default for an unknown name instead of an AttributeError
get_model_Fallback(regression_type, a, n) ==
    LET t  == IF regression_type \in DOMAIN linear_model
              THEN regression_type ELSE "LinearRegression"
        r1 == set_params_alpha(Construct(t), a)
        r2 == set_params_normalize(r1.value, n)
    IN  [raised |-> FALSE, value |-> r2.value,
         printed |-> (IF r1.raised THEN <<"Did not set alpha in model...">> ELSE <<>>)
                     \o (IF r2.raised THEN <<"Did not set normalize in model...">> ELSE <<>>)]

\* get_model: the body of the function, without its decorator.
\* raised: the AttributeError of getattr for a name the module lacks.
get_model(regression_type, a, n) ==
    IF regression_type \notin DOMAIN linear_model
    THEN [raised |-> TRUE, value |-> NoneModel, printed |-> <<>>]
    ELSE LET m0 == Construct(regression_type)
             r1 == set_params_alpha(m0, a)
             r2 == set_params_normalize(r1.value, n)
         IN  [raised |-> FALSE, value |-> r2.value,
              printed |-> (IF r1.raised
                           THEN <<"Did not set alpha in model...">> ELSE <<>>)
                          \o (IF r2.raised
                              THEN <<"Did not set normalize in model...">> ELSE <<>>)]

\* gl.arc_tool_report: the decorator's source is not part of the script. For a
\* call that returns it hands the result through; for a call that raises the
\* exception either propagates or is reported and replaced by a None result.
arc_tool_report(r) ==
    IF r.raised THEN {"propagate", "swallow"} ELSE {"return"}

-----------------------------------------------------------------------------
(* regression_summary *)

\* one report line: its kind, "coef * name" terms, raw numbers
Line(kind, terms, raw) == [kind |-> kind, terms |-> terms, raw |-> raw]

\* round(coef, 3): c in units of 10^-4, result in units of 10^-3. A decimal
\* tie is never exact in binary floating point: `up' is the side the float lies.
Round3(c, up) ==
    LET q == c \div 10
        r == c % 10
    IN  IF r < 5 THEN q
        ELSE IF r > 5 THEN q + 1
        ELSE IF up THEN q + 1 ELSE q

\* the coefficient line with the names zipped in reverse order
CoefLine_Reversed(coef_, regressor_names, tie) ==
    IF Len(regressor_names) = Len(coef_)
    THEN Line("coef_paired",
              [k \in 1..Len(coef_) |->
                  <<Round3(coef_[k], tie[k]),
                    regressor_names[Len(coef_) + 1 - k]>>],
              <<>>)
    ELSE Line("coef_raw", <<>>, coef_)

\* lines 83-90: the coefficient line
CoefLine(coef_, regressor_names, tie) ==
    IF Len(regressor_names) = Len(coef_)
    THEN Line("coef_paired",
              [k \in 1..Len(coef_) |->
                  <<Round3(coef_[k], tie[k]), regressor_names[k]>>],
              <<>>)
    ELSE Line("coef_raw", <<>>, coef_)

\* feature_selection.f_regression: one score per column, kept symbolic as the
\* column's index
f_regression(xCols) == [k \in 1..xCols |-> k]

\* lines 105-112: the F-score and p-value lines
ScoreLines(regressor_names, xCols) ==
    IF Len(regressor_names) = xCols
    THEN <<Line("f_scores",
                [k \in 1..xCols |-> <<f_regression(xCols)[k], regressor_names[k]>>],
                <<>>),
           Line("p_values",
                [k \in 1..xCols |-> <<f_regression(xCols)[k], regressor_names[k]>>],
                <<>>)>>
    ELSE <<Line("f_scores", <<>>, f_regression(xCols)),
           Line("p_values", <<>>, f_regression(xCols))>>

\* the block with the shape test dropped
ScoreBlock_NoShapeTest(regressor_names, xRows, yLen, xCols, shapeOk, fFails) ==
    IF ~shapeOk THEN <<>>
    ELSE IF fFails THEN <<Line("REGRESSOR SCORES", <<>>, <<>>)>>
    ELSE <<Line("REGRESSOR SCORES", <<>>, <<>>)>> \o ScoreLines(regressor_names, xCols)

\* lines 101-115: the optional block inside try/except-pass.
\* shapeOk: both arguments have a shape (else AttributeError, swallowed)
\* fFails:  f_regression raises (swallowed after the header was appended)
ScoreBlock(regressor_names, xRows, yLen, xCols, shapeOk, fFails) ==
    IF ~shapeOk THEN <<>>
    ELSE IF xRows # yLen THEN <<>>
    ELSE IF fFails THEN <<Line("REGRESSOR SCORES", <<>>, <<>>)>>
    ELSE <<Line("REGRESSOR SCORES", <<>>, <<>>)>> \o ScoreLines(regressor_names, xCols)

\* lines 80-100: every line before the optional block
FixedLines(model, regressor_names, tie) ==
    <<Line("REGRESSION MODEL", <<>>, <<model.alpha>>),
      Line("MODEL COEFFICENTS", <<>>, <<>>),
      CoefLine(model.coef_, regressor_names, tie),
      Line("intercept", <<>>, <<>>),
      Line("MODEL EVALUATION", <<>>, <<>>),
      Line("r2", <<>>, <<>>),
      Line("mse", <<>>, <<>>),
      Line("mae", <<>>, <<>>),
      Line("medae", <<>>, <<>>)>>

\* regression_summary: the returned model_evaluation_list
regression_summary(model, regressor_names, xRows, yLen, xCols, shapeOk, fFails, tie) ==
    FixedLines(model, regressor_names, tie)
    \o ScoreBlock(regressor_names, xRows, yLen, xCols, shapeOk, fFails)

Kinds(lines) == {lines[k].kind : k \in 1..Len(lines)}
BlockKinds == {"REGRESSOR SCORES", "f_scores", "p_values"}

-----------------------------------------------------------------------------
(* regression_summary called on its own, on inputs drawn from bounded sets *)

NoSummary == [called |-> FALSE, lines |-> <<>>]

\* a fitted estimator with the given coefficients
Fitted(coef_) == [Construct("LinearRegression") EXCEPT !.fitted = TRUE, !.coef_ = coef_]

\* inputs that vary names and coefficients; independents_array left at its
\* default np.array([]) (shape (0,))
CoefInputs ==
    [coef_ : SeqsUpTo(Coefs, MaxVars), regressor_names : SeqsUpTo(RegressorNames, MaxVars),
     xRows : {0}, yLen : 1..MaxRows, xCols : {1}, shapeOk : {TRUE}, fFails : {FALSE}]

\* inputs that vary the arrays' shapes and the outcome of f_regression
ScoreInputs ==
    [coef_ : {[k \in 1..n |-> 0] : n \in 0..MaxVars},
     regressor_names : SeqsUpTo(RegressorNames, MaxVars),
     xRows : 0..MaxRows, yLen : 1..MaxRows, xCols : 1..MaxVars,
     shapeOk : BOOLEAN, fFails : BOOLEAN]

SummaryCall ==
    /\ ~sumOut.called
    /\ \E tie \in [1..MaxVars -> BOOLEAN] :
          sumOut' = [called |-> TRUE,
                     lines  |-> regression_summary(Fitted(sumIn.coef_),
                                    sumIn.regressor_names, sumIn.xRows, sumIn.yLen,
                                    sumIn.xCols, sumIn.shapeOk, sumIn.fFails, tie)]
    /\ UNCHANGED <<sumIn, orchVars>>

-----------------------------------------------------------------------------
(* feature_class_sklearn_regression *)

NoExc == [type |-> "none", args |-> <<>>]

\* what a failing call can raise: arcpy.ExecuteError, an exception with a
\* message, an exception constructed without arguments
Raisable == {[type |-> "ExecuteError", args |-> <<"arcpy">>],
             [type |-> "Exception", args |-> <<"message">>],
             [type |-> "Exception", args |-> <<>>]}

AttributeError == [type |-> "AttributeError", args |-> <<"no attribute">>]
TypeError == [type |-> "TypeError", args |-> <<"bad type">>]

\* the steps of the try block that run at most once
Steps == {"describe", "read", "get_model", "fit", "predict", "join", "summary",
          "isdir", "open", "remove", "dump", "finish"}
BeforeJoin == {"describe", "read", "get_model", "fit", "predict"}
AfterJoin == {"summary", "isdir", "open", "remove", "dump", "loop", "write"}

\* output_dir: the default None, a string that names no directory, a directory
OutputDirs == {"None", "missing", "valid"}

\* os.path.isdir: TypeError for None
os_path_isdir(d) ==
    IF d = "None" THEN [raised |-> TRUE, value |-> FALSE]
    ELSE [raised |-> FALSE, value |-> (d = "valid")]

NoFile == [exists |-> FALSE, lines |-> <<>>]
OldLine == Line("old report", <<>>, <<>>)

\* open(path, "a"): keeps the previous content
open_a(f) == [exists |-> TRUE, lines |-> f.lines]

\* open(path, "w"): creates or truncates
open_w(f) == [exists |-> TRUE, lines |-> <<>>]

\* text_report.write(str(report) + "\n")
file_write(f, line) == [f EXCEPT !.lines = Append(@, line)]

\* ExtendTable with append_only=True: existing fields keep their values
ExtendTable_AppendOnly(ds) ==
    [JoinField |-> IF ds.JoinField = "absent" THEN "new" ELSE ds.JoinField,
     PredictedField |-> IF ds.PredictedField = "absent" THEN "new" ELSE ds.PredictedField]

\* arcpy.da.ExtendTable(..., append_only=False): both fields hold this run's values
ExtendTable(ds) == [JoinField |-> "new", PredictedField |-> "new"]

\* a retry of the failed step instead of the handler
OnRaise_Retry(step) == step

\* try/except: where control goes when `step' raises
OnRaise(step) == "except"

\* the body of the for loop written in the other order
LoopBody_WriteFirst == <<"write", "log">>

\* lines 170-172: the body of the for loop, in order
LoopBody == <<"log", "write">>

\* gl.arc_print(text) at source line `line'
Msg(line, text) == [line |-> line, text |-> text]

Count(step) == [attempts EXCEPT ![step] = @ + 1]

Raise(step, e) ==
    /\ pc' = OnRaise(step)
    /\ exc' = e
    /\ failedAt' = step

Args == <<regression_model_type, alpha, normalize, output_dir, independent_vars,
          initial, sumIn, sumOut>>

\* lines 127-131
Describe ==
    /\ pc = "describe"
    /\ attempts["describe"] < 2
    /\ attempts' = Count("describe")
    /\ \/ /\ messages' = Append(messages, Msg(131, "Converting"))
          /\ pc' = "read"
          /\ UNCHANGED <<exc, failedAt>>
       \/ /\ \E e \in Raisable : Raise("describe", e)
          /\ UNCHANGED messages
    /\ UNCHANGED <<Args, i, regression_model, regession_report,
                   valid_output_file_directory, text_report, dataset, reportFile,
                   modelFile, logged, stdout, swallowed>>

\* lines 133-140
ReadArrays ==
    /\ pc = "read"
    /\ attempts["read"] < 2
    /\ attempts' = Count("read")
    /\ \/ /\ pc' = "get_model"
          /\ UNCHANGED <<exc, failedAt>>
       \/ \E e \in Raisable : Raise("read", e)
    /\ UNCHANGED <<Args, i, regression_model, regession_report,
                   valid_output_file_directory, text_report, dataset, reportFile,
                   modelFile, messages, logged, stdout, swallowed>>

\* line 142, with lines 53-65
GetModel ==
    /\ pc = "get_model"
    /\ attempts["get_model"] < 2
    /\ attempts' = Count("get_model")
    /\ LET r == get_model(regression_model_type, alpha, normalize)
       IN  /\ stdout' = stdout \o r.printed
           /\ \E o \in arc_tool_report(r) :
                \/ /\ o = "return"
                   /\ regression_model' = r.value
                   /\ messages' = Append(messages, Msg(54, "Using"))
                   /\ pc' = "fit"
                   /\ UNCHANGED <<exc, failedAt, swallowed>>
                \/ /\ o = "propagate"
                   /\ Raise("get_model", AttributeError)
                   /\ messages' = Append(messages, Msg(54, "Using"))
                   /\ UNCHANGED <<regression_model, swallowed>>
                \/ /\ o = "swallow"
                   /\ regression_model' = NoneModel
                   /\ swallowed' = swallowed \cup {"get_model"}
                   /\ messages' = messages \o <<Msg(54, "Using"),
                                                Msg(45, "get_model failed")>>
                   /\ pc' = "fit"
                   /\ UNCHANGED <<exc, failedAt>>
    /\ UNCHANGED <<Args, i, regession_report, valid_output_file_directory,
                   text_report, dataset, reportFile, modelFile, logged>>

\* lines 144-145. The fitted coefficients are the library's: one of two
\* values per regressor, in units of 10^-4.
Fit ==
    /\ pc = "fit"
    /\ attempts["fit"] < 2
    /\ attempts' = Count("fit")
    /\ messages' = Append(messages, Msg(144, "Fitting"))
    /\ \/ /\ ~regression_model.none
          /\ \E c \in [1..Len(independent_vars) -> {-10 * MaxCoef, 10 * MaxCoef}] :
                regression_model' = [regression_model EXCEPT !.fitted = TRUE, !.coef_ = c]
          /\ pc' = "predict"
          /\ UNCHANGED <<exc, failedAt>>
       \/ /\ ~regression_model.none
          /\ \E e \in Raisable : Raise("fit", e)
          /\ UNCHANGED regression_model
       \/ /\ regression_model.none
          /\ Raise("fit", AttributeError)
          /\ UNCHANGED regression_model
    /\ UNCHANGED <<Args, i, regession_report, valid_output_file_directory,
                   text_report, dataset, reportFile, modelFile, logged, stdout,
                   swallowed>>

\* line 146
Predict ==
    /\ pc = "predict"
    /\ attempts["predict"] < 2
    /\ attempts' = Count("predict")
    /\ \/ /\ pc' = "join"
          /\ UNCHANGED <<exc, failedAt>>
       \/ \E e \in Raisable : Raise("predict", e)
    /\ UNCHANGED <<Args, i, regression_model, regession_report,
                   valid_output_file_directory, text_report, dataset, reportFile,
                   modelFile, messages, logged, stdout, swallowed>>

\* lines 147-154. A failure before ExtendTable leaves the dataset alone; a
\* failure inside ExtendTable may leave the join key behind.
Join ==
    /\ pc = "join"
    /\ attempts["join"] < 2
    /\ attempts' = Count("join")
    /\ \/ /\ messages' = Append(messages, Msg(152, "Extending"))
          /\ dataset' = ExtendTable(dataset)
          /\ pc' = "summary"
          /\ UNCHANGED <<exc, failedAt>>
       \/ /\ \E e \in Raisable : Raise("join", e)
          /\ UNCHANGED <<messages, dataset>>
       \/ /\ \E e \in Raisable : Raise("join", e)
          /\ messages' = Append(messages, Msg(152, "Extending"))
          /\ dataset' = [dataset EXCEPT !.JoinField = "new"]
    /\ UNCHANGED <<Args, i, regression_model, regession_report,
                   valid_output_file_directory, text_report, reportFile,
                   modelFile, logged, stdout, swallowed>>

NoReport == [none |-> TRUE, lines |-> <<>>]

\* line 156, with lines 80-116. The arrays come from one table, so their row
\* counts agree and both have a shape; a failure of the metrics raises.
Summary ==
    /\ pc = "summary"
    /\ attempts["summary"] < 2
    /\ attempts' = Count("summary")
    /\ \/ /\ \E fFails \in BOOLEAN, tie \in [1..MaxVars -> BOOLEAN] :
                regession_report' =
                    [none  |-> FALSE,
                     lines |-> regression_summary(regression_model, independent_vars,
                                   MaxRows, MaxRows, Len(independent_vars), TRUE,
                                   fFails, tie)]
          /\ pc' = "isdir"
          /\ UNCHANGED <<exc, failedAt, swallowed, messages>>
       \/ /\ "propagate" \in arc_tool_report([raised |-> TRUE])
          /\ \E e \in Raisable : Raise("summary", e)
          /\ UNCHANGED <<regession_report, swallowed, messages>>
       \/ /\ "swallow" \in arc_tool_report([raised |-> TRUE])
          /\ regession_report' = NoReport
          /\ swallowed' = swallowed \cup {"summary"}
          /\ messages' = Append(messages, Msg(68, "regression_summary failed"))
          /\ pc' = "isdir"
          /\ UNCHANGED <<exc, failedAt>>
    /\ UNCHANGED <<Args, i, regression_model, valid_output_file_directory,
                   text_report, dataset, reportFile, modelFile, logged, stdout>>

\* line 158-159
IsDir ==
    /\ pc = "isdir"
    /\ attempts["isdir"] < 2
    /\ attempts' = Count("isdir")
    /\ LET r == os_path_isdir(output_dir)
       IN  \/ /\ ~r.raised
              /\ valid_output_file_directory' = r.value
              /\ pc' = IF r.value THEN "open" ELSE "loop"
              /\ UNCHANGED <<exc, failedAt>>
           \/ /\ r.raised
              /\ Raise("isdir", TypeError)
              /\ UNCHANGED valid_output_file_directory
    /\ UNCHANGED <<Args, i, regression_model, regession_report, text_report,
                   dataset, reportFile, modelFile, messages, logged, stdout,
                   swallowed>>

\* lines 160-163
OpenReport ==
    /\ pc = "open"
    /\ attempts["open"] < 2
    /\ attempts' = Count("open")
    /\ messages' = Append(messages, Msg(160, "Outputing"))
    /\ \/ /\ reportFile' = open_w(reportFile)
          /\ text_report' = TRUE
          /\ pc' = "remove"
          /\ UNCHANGED <<exc, failedAt>>
       \/ /\ \E e \in Raisable : Raise("open", e)
          /\ UNCHANGED <<reportFile, text_report>>
    /\ UNCHANGED <<Args, i, regression_model, regession_report,
                   valid_output_file_directory, dataset, modelFile, logged,
                   stdout, swallowed>>

\* lines 164-167
RemoveModel ==
    /\ pc = "remove"
    /\ attempts["remove"] < 2
    /\ attempts' = Count("remove")
    /\ \/ /\ modelFile = "absent"
          /\ pc' = "dump"
          /\ UNCHANGED <<modelFile, exc, failedAt>>
       \/ /\ modelFile # "absent"
          /\ modelFile' = "absent"
          /\ pc' = "dump"
          /\ UNCHANGED <<exc, failedAt>>
       \/ /\ modelFile # "absent"
          /\ \E e \in Raisable : Raise("remove", e)
          /\ UNCHANGED modelFile
    /\ UNCHANGED <<Args, i, regression_model, regession_report,
                   valid_output_file_directory, text_report, dataset, reportFile,
                   messages, logged, stdout, swallowed>>

\* line 168. joblib.dump opens the target before it pickles: a failure leaves
\* no file or an incomplete one.
Dump ==
    /\ pc = "dump"
    /\ attempts["dump"] < 2
    /\ attempts' = Count("dump")
    /\ \/ /\ modelFile' = "new"
          /\ pc' = "loop"
          /\ UNCHANGED <<exc, failedAt>>
       \/ /\ \E e \in Raisable : Raise("dump", e)
          /\ modelFile' \in {modelFile, "partial"}
    /\ UNCHANGED <<Args, i, regression_model, regession_report,
                   valid_output_file_directory, text_report, dataset, reportFile,
                   messages, logged, stdout, swallowed>>

\* the step after `step' of the loop body, and the index it runs with
AfterBodyStep(step) == IF LoopBody[1] = step THEN LoopBody[2] ELSE "loop"
IndexAfter(step) == IF LoopBody[1] = step THEN i ELSE i + 1

\* line 169: iterating None raises TypeError
LoopHead ==
    /\ pc = "loop"
    /\ \/ /\ regession_report.none
          /\ Raise("loop", TypeError)
       \/ /\ ~regession_report.none
          /\ i <= Len(regession_report.lines)
          /\ pc' = LoopBody[1]
          /\ UNCHANGED <<exc, failedAt>>
       \/ /\ ~regession_report.none
          /\ i > Len(regession_report.lines)
          /\ pc' = "finish"
          /\ UNCHANGED <<exc, failedAt>>
    /\ UNCHANGED <<Args, i, regression_model, regession_report,
                   valid_output_file_directory, text_report, dataset, reportFile,
                   modelFile, messages, logged, stdout, swallowed, attempts>>

\* line 170
LogLine ==
    /\ pc = "log"
    /\ logged' = Append(logged, regession_report.lines[i])
    /\ pc' = AfterBodyStep("log")
    /\ i' = IndexAfter("log")
    /\ UNCHANGED <<Args, regression_model, regession_report,
                   valid_output_file_directory, text_report, exc, dataset,
                   reportFile, modelFile, messages, stdout, failedAt, swallowed,
                   attempts>>

\* lines 171-172
WriteLine ==
    /\ pc = "write"
    /\ \/ /\ valid_output_file_directory
          /\ reportFile' = file_write(reportFile, regession_report.lines[i])
          /\ pc' = AfterBodyStep("write")
          /\ i' = IndexAfter("write")
          /\ UNCHANGED <<exc, failedAt>>
       \/ /\ valid_output_file_directory
          /\ \E e \in Raisable : Raise("write", e)
          /\ UNCHANGED <<reportFile, i>>
       \/ /\ ~valid_output_file_directory
          /\ pc' = AfterBodyStep("write")
          /\ i' = IndexAfter("write")
          /\ UNCHANGED <<reportFile, exc, failedAt>>
    /\ UNCHANGED <<Args, regression_model, regession_report,
                   valid_output_file_directory, text_report, dataset, modelFile,
                   messages, logged, stdout, swallowed, attempts>>

\* lines 174-175
Finish ==
    /\ pc = "finish"
    /\ attempts["finish"] < 2
    /\ attempts' = Count("finish")
    /\ messages' = Append(messages, Msg(175, "Script Completed Successfully."))
    /\ pc' = "done"
    /\ UNCHANGED <<Args, i, regression_model, regession_report,
                   valid_output_file_directory, text_report, exc, dataset,
                   reportFile, modelFile, logged, stdout, failedAt, swallowed>>

\* lines 176-179. e.args[0] of an exception without arguments raises
\* IndexError inside the handler, which leaves the function.
Handler ==
    /\ pc = "except"
    /\ \/ /\ exc.type = "ExecuteError"
          /\ messages' = Append(messages, Msg(177, "GetMessages(2)"))
          /\ pc' = "halted"
       \/ /\ exc.type # "ExecuteError"
          /\ exc.args # <<>>
          /\ messages' = Append(messages, Msg(179, exc.args[1]))
          /\ pc' = "halted"
       \/ /\ exc.type # "ExecuteError"
          /\ exc.args = <<>>
          /\ pc' = "crashed"
          /\ UNCHANGED messages
    /\ UNCHANGED <<Args, i, regression_model, regession_report,
                   valid_output_file_directory, text_report, exc, dataset,
                   reportFile, modelFile, logged, stdout, failedAt, swallowed,
                   attempts>>

-----------------------------------------------------------------------------
(* Specifications *)

VarName(k) == IF k % 2 = 1 THEN "x1" ELSE "x2"

\* the state before the first statement of the function
OrchStart ==
    /\ pc = "describe"
    /\ i = 1
    /\ regression_model = NoneModel
    /\ regession_report = NoReport
    /\ valid_output_file_directory = FALSE
    /\ text_report = FALSE
    /\ exc = NoExc
    /\ messages = <<>>
    /\ logged = <<>>
    /\ stdout = <<>>
    /\ failedAt = "none"
    /\ swallowed = {}
    /\ attempts = [s \in Steps |-> 0]
    /\ initial = [dataset |-> dataset, reportFile |-> reportFile, modelFile |-> modelFile]

\* an invocation on any arguments, on a dataset and an output directory that
\* an earlier invocation may have written
Init ==
    /\ regression_model_type \in DOMAIN linear_model \cup {"NotAModel"}
    /\ alpha \in 1..MaxAlpha
    /\ normalize \in BOOLEAN
    /\ output_dir \in OutputDirs
    /\ independent_vars \in {[k \in 1..n |-> VarName(k)] : n \in 1..MaxVars}
    /\ dataset \in {[JoinField |-> "absent", PredictedField |-> "absent"],
                    [JoinField |-> "old", PredictedField |-> "old"]}
    /\ reportFile \in {NoFile, [exists |-> TRUE, lines |-> <<OldLine>>]}
    /\ modelFile \in {"absent", "old"}
    /\ output_dir # "valid" => reportFile = NoFile /\ modelFile = "absent"
    /\ OrchStart
    /\ sumIn = [coef_ |-> <<>>, regressor_names |-> <<>>, xRows |-> 0, yLen |-> 1,
                xCols |-> 1, shapeOk |-> TRUE, fFails |-> FALSE]
    /\ sumOut = NoSummary

Next ==
    \/ Describe \/ ReadArrays \/ GetModel \/ Fit \/ Predict \/ Join \/ Summary
    \/ IsDir \/ OpenReport \/ RemoveModel \/ Dump \/ LoopHead \/ LogLine
    \/ WriteLine \/ Finish \/ Handler

Spec == Init /\ [][Next]_vars

\* regression_summary applied once to each input
SummaryInit ==
    /\ sumIn \in CoefInputs \cup ScoreInputs
    /\ sumOut = NoSummary
    /\ regression_model_type = "LinearRegression"
    /\ alpha = 1
    /\ normalize = FALSE
    /\ output_dir = "None"
    /\ independent_vars = <<>>
    /\ dataset = [JoinField |-> "absent", PredictedField |-> "absent"]
    /\ reportFile = NoFile
    /\ modelFile = "absent"
    /\ OrchStart

SummaryNext == SummaryCall

SpecSummary == SummaryInit /\ [][SummaryNext]_vars

-----------------------------------------------------------------------------
(* Properties *)

Terminal == {"done", "halted", "crashed"}
Supported == DOMAIN linear_model
Elems(q) == {q[k] : k \in 1..Len(q)}
Joined == [JoinField |-> "new", PredictedField |-> "new"]

\* C1: once get_model has run on a supported name, an estimator of that class
\* has been returned and no exception left get_model; alpha is set on it iff
\* the class accepts alpha and normalize iff the class accepts normalize, each
\* independently of the other; a rejected parameter leaves the class default
\* and only prints its notice.
C1_IndependentParams ==
    (regression_model_type \in Supported /\ attempts["get_model"] > 0) =>
        LET acc == linear_model[regression_model_type]
            m   == IF regression_model.fitted
                   THEN [regression_model EXCEPT !.fitted = FALSE, !.coef_ = <<>>]
                   ELSE regression_model
        IN  /\ failedAt # "get_model"
            /\ "get_model" \notin swallowed
            /\ ~m.none
            /\ m.cls = regression_model_type
            /\ m.alpha = IF "alpha" \in acc THEN alpha ELSE 0
            /\ m.normalize = IF "normalize" \in acc THEN normalize ELSE FALSE
            /\ ("Did not set alpha in model..." \in Elems(stdout)) <=> ("alpha" \notin acc)
            /\ ("Did not set normalize in model..." \in Elems(stdout))
                  <=> ("normalize" \notin acc)

\* C1 witness: alpha was rejected and normalize was still applied
C1_Witness ==
    /\ regression_model_type = "LinearRegression"
    /\ normalize
    /\ attempts["get_model"] > 0
    /\ regression_model.normalize
    /\ stdout = <<"Did not set alpha in model...">>

\* C2: with an unsupported regression-type name the lookup in get_model raises,
\* and at no point of the invocation is the report file or the model file
\* created, removed or written.
C2_UnknownModelNoFiles ==
    (regression_model_type \notin Supported) =>
        /\ reportFile = initial.reportFile
        /\ modelFile = initial.modelFile
        /\ ~text_report
        /\ pc # "done"
        /\ attempts["get_model"] > 0 =>
              \/ failedAt = "get_model" /\ exc = AttributeError
              \/ "get_model" \in swallowed

\* C2 witness: the invocation ended after the failed lookup, with earlier
\* output files present in a valid directory
C2_Witness ==
    /\ regression_model_type = "NotAModel"
    /\ output_dir = "valid"
    /\ initial.reportFile.exists
    /\ initial.modelFile = "old"
    /\ failedAt = "get_model"
    /\ pc = "halted"

\* C3: with an output directory that is invalid or absent (the default None
\* included) and every earlier step successful, the invocation completes, logs
\* every report line, writes no file and reports no error.
C3_NoDirectoryStillLogs ==
    (/\ output_dir \in {"None", "missing"}
     /\ attempts["isdir"] > 0
     /\ ~regession_report.none
     /\ pc \in Terminal) =>
        /\ pc = "done"
        /\ failedAt = "none"
        /\ logged = regession_report.lines
        /\ reportFile = initial.reportFile
        /\ modelFile = initial.modelFile

\* C4: every exception raised in the try block is caught, a message is
\* reported by the handler, no further step runs and nothing propagates out of
\* the function.
C4_EveryExceptionCaught ==
    (failedAt # "none") =>
        /\ pc \in {"except", "halted"}
        /\ pc = "halted" =>
              /\ messages # <<>>
              /\ messages[Len(messages)].line \in {177, 179}

C6_FailedBlockOmitted ==
    (/\ sumOut.called
     /\ \/ ~sumIn.shapeOk
        \/ sumIn.xRows = sumIn.yLen /\ sumIn.fFails) =>
        /\ Kinds(sumOut.lines) \cap BlockKinds = {}
        /\ Len(sumOut.lines) = 9
        /\ \A k \in 1..9 : sumOut.lines[k].kind \notin BlockKinds

\* C7: the coefficient line is the paired rendering exactly when names and
\* coefficients have the same length: one term per coefficient, the k-th term
\* holding the k-th name and the k-th coefficient rounded to 3 decimals (within
\* half a unit of the third decimal), in input order; otherwise it is the raw
\* coefficient vector and holds no name.
C7_CoefficientLine ==
    sumOut.called =>
        LET line == sumOut.lines[3]
            c    == sumIn.coef_
            nm   == sumIn.regressor_names
        IN  /\ \A k \in 1..Len(sumOut.lines) :
                  sumOut.lines[k].kind \in {"coef_paired", "coef_raw"} <=> k = 3
            /\ (line.kind = "coef_paired") <=> (Len(nm) = Len(c))
            /\ Len(nm) = Len(c) =>
                  /\ Len(line.terms) = Len(c)
                  /\ line.raw = <<>>
                  /\ \A k \in 1..Len(c) :
                        /\ line.terms[k][2] = nm[k]
                        /\ 10 * line.terms[k][1] - c[k] \in (-5)..5
            /\ Len(nm) # Len(c) =>
                  /\ line.kind = "coef_raw"
                  /\ line.raw = c
                  /\ line.terms = <<>>

\* C7 witness: two distinct names paired with two coefficients, one of which
\* rounds up
C7_Witness ==
    /\ sumOut.called
    /\ sumIn.regressor_names = <<"x2", "x1">>
    /\ sumIn.coef_ = <<6, -4>>
    /\ sumOut.lines[3].terms = <<<<1, "x2">>, <<0, "x1">>>>

C9_NoRetryNoRollback ==
    /\ \A s \in Steps : attempts[s] <= 1
    /\ Len(logged) <= Len(regession_report.lines)
    /\ Len(reportFile.lines) <= Len(initial.reportFile.lines) + Len(regession_report.lines)
    /\ failedAt \in AfterJoin => dataset = Joined
    /\ failedAt \in BeforeJoin => dataset = initial.dataset

\* C9 witness: the serialization failed after the join had overwritten an
\* earlier run's columns, and the invocation has ended
C9_Witness ==
    /\ failedAt = "dump"
    /\ pc = "halted"
    /\ initial.dataset.PredictedField = "old"
    /\ dataset = Joined

\* C10 as stated: with a valid output directory, at every point the report
\* file's lines are a prefix of the logged lines, a non-empty report file
\* implies the new model file, and a failed serialization leaves an empty
\* report file and no model file.
C10_FileOrderAtEveryPoint ==
    (output_dir = "valid") =>
        /\ IsPrefix(reportFile.lines, logged)
        /\ reportFile.lines # <<>> => modelFile = "new"
        /\ failedAt = "dump" => reportFile.lines = <<>> /\ modelFile = "absent"

\* C10 amended: with a valid output directory, nothing touches either file
\* before the report file is opened; from the opening on the report file's
\* lines are a prefix of the logged lines and a non-empty report file implies
\* the new model file; the new model file appears only after the removal step;
\* lines are logged only after the serialization; a failed serialization leaves
\* an empty report file and no complete model file (none or an incomplete one).
C10_FileOrderFromOpening ==
    (output_dir = "valid") =>
        /\ ~text_report =>
              reportFile = initial.reportFile /\ modelFile = initial.modelFile
        /\ text_report => IsPrefix(reportFile.lines, logged)
        /\ (text_report /\ reportFile.lines # <<>>) => modelFile = "new"
        /\ modelFile = "new" => (text_report /\ attempts["remove"] = 1)
        /\ logged # <<>> => modelFile = "new"
        /\ failedAt = "dump" =>
              /\ reportFile = [exists |-> TRUE, lines |-> <<>>]
              /\ modelFile \in {"absent", "partial"}

\* C10 witness: in the loop, over an earlier report, a line is logged and not
\* yet written
C10_Witness ==
    /\ output_dir = "valid"
    /\ initial.reportFile.lines = <<OldLine>>
    /\ pc = "write"
    /\ Len(logged) = 3
    /\ Len(reportFile.lines) = 2

====
